---- MODULE Spec2Model ----
(***************************************************************************)
(* Model of postgres_transfer.py: the PostgreSQLTransfer session (run),    *)
(* its container classifier, its menus, the database lister and the        *)
(* dump / prepare / import pipeline (perform_transfer).                    *)
(*                                                                         *)
(* Text is modelled as a sequence of one-character strings, so that        *)
(* str.lower(), str.strip(), the `in` substring test and int() are         *)
(* computed as Python computes them.                                       *)
(***************************************************************************)
EXTENDS Integers, Sequences, FiniteSets, TLC

(***************************************************************************)
(* Bounds of the model.                                                    *)
(***************************************************************************)
MaxContainers == 2     \* running containers in one docker ps listing
MaxLines == 2          \* lines in the catalog query output
MaxPrompts == 2        \* rejected inputs per menu before the model stops re-prompting

(***************************************************************************)
(* Text helpers: Python str operations on sequences of characters.         *)
(***************************************************************************)
UpperChars == <<"A","B","C","D","E","F","G","H","I","J","K","L","M",
                "N","O","P","Q","R","S","T","U","V","W","X","Y","Z">>
LowerChars == <<"a","b","c","d","e","f","g","h","i","j","k","l","m",
                "n","o","p","q","r","s","t","u","v","w","x","y","z">>
Digits == <<"0","1","2","3","4","5","6","7","8","9">>
Whitespace == {" ", "\t", "\n"}

LowerChar(c) ==
    IF \E i \in 1..26 : UpperChars[i] = c
    THEN LowerChars[CHOOSE i \in 1..26 : UpperChars[i] = c]
    ELSE c

UpperChar(c) ==
    IF \E i \in 1..26 : LowerChars[i] = c
    THEN UpperChars[CHOOSE i \in 1..26 : LowerChars[i] = c]
    ELSE c

\* str.lower()
Lower(s) == [i \in 1..Len(s) |-> LowerChar(s[i])]

\* str.upper(), used only to build mixed-case inputs
Upper(s) == [i \in 1..Len(s) |-> UpperChar(s[i])]

\* pat in s
Contains(s, pat) ==
    \E i \in 0..(Len(s) - Len(pat)) :
        \A j \in 1..Len(pat) : s[i + j] = pat[j]

\* str.strip()
Strip(s) ==
    IF \A i \in 1..Len(s) : s[i] \in Whitespace
    THEN << >>
    ELSE LET a == CHOOSE i \in 1..Len(s) :
                      /\ s[i] \notin Whitespace
                      /\ \A j \in 1..(i - 1) : s[j] \in Whitespace
             b == CHOOSE i \in 1..Len(s) :
                      /\ s[i] \notin Whitespace
                      /\ \A j \in (i + 1)..Len(s) : s[j] \in Whitespace
         IN  SubSeq(s, a, b)

\* pattern.rstrip(':')
RStripColon(s) ==
    IF \A i \in 1..Len(s) : s[i] = ":"
    THEN << >>
    ELSE LET b == CHOOSE i \in 1..Len(s) :
                      /\ s[i] # ":"
                      /\ \A j \in (i + 1)..Len(s) : s[j] = ":"
         IN  SubSeq(s, 1, b)

DigitVal(c) == (CHOOSE i \in 1..10 : Digits[i] = c) - 1

IsDigit(c) == \E i \in 1..10 : Digits[i] = c

RECURSIVE DigitsVal(_)
DigitsVal(s) ==
    IF s = << >> THEN 0
    ELSE 10 * DigitsVal(SubSeq(s, 1, Len(s) - 1)) + DigitVal(s[Len(s)])

\* int(s): the text is trimmed, an optional sign, then decimal digits;
\* anything else raises ValueError.
IntBody(s) ==
    LET t == Strip(s)
    IN  IF t # << >> /\ t[1] \in {"+", "-"} THEN Tail(t) ELSE t

IntOk(s) ==
    /\ IntBody(s) # << >>
    /\ \A i \in 1..Len(IntBody(s)) : IsDigit(IntBody(s)[i])

IntVal(s) ==
    LET t == Strip(s)
    IN  IF t[1] = "-" THEN 0 - DigitsVal(IntBody(s)) ELSE DigitsVal(IntBody(s))

(***************************************************************************)
(* _is_postgres_database_server                                            *)
(***************************************************************************)
postgres_server_patterns ==
    << <<"p","o","s","t","g","r","e","s",":">>,
       <<"p","o","s","t","g","r","e","s">>,
       <<"p","o","s","t","g","r","e","s","q","l",":">>,
       <<"p","o","s","t","g","r","e","s","q","l">>,
       <<"p","o","s","t","g","r","e","s","/">>,
       <<"b","i","t","n","a","m","i","/","p","o","s","t","g","r","e","s","q","l">>,
       <<"p","o","s","t","g","i","s","/","p","o","s","t","g","i","s">>,
       <<"t","i","m","e","s","c","a","l","e","/","t","i","m","e","s","c","a","l","e","d","b">> >>

exclude_patterns ==
    << <<"u","m","a","m","i">>,
       <<"n","e","x","t","c","l","o","u","d">>,
       <<"w","o","r","d","p","r","e","s","s">>,
       <<"d","r","u","p","a","l">>,
       <<"g","i","t","l","a","b">>,
       <<"s","o","n","a","r","q","u","b","e">>,
       <<"k","e","y","c","l","o","a","k">>,
       <<"s","u","p","e","r","s","e","t">>,
       <<"m","e","t","a","b","a","s","e">>,
       <<"g","r","a","f","a","n","a">>,
       <<"h","a","s","u","r","a">>,
       <<"s","u","p","a","b","a","s","e">>,
       <<"d","i","r","e","c","t","u","s">>,
       <<"s","t","r","a","p","i">> >>

PgPortText == <<"5","4","3","2">>

PostgresqlLatest ==
    <<"p","o","s","t","g","r","e","s","q","l","-","l","a","t","e","s","t">>

is_postgres_server(image_lower) ==
    \E k \in 1..Len(postgres_server_patterns) :
        \/ Contains(image_lower, postgres_server_patterns[k])
        \/ image_lower = RStripColon(postgres_server_patterns[k])

\* a deny-list test that compares the whole reference instead of searching it
is_application_exact(image_lower) ==
    \E k \in 1..Len(exclude_patterns) : image_lower = exclude_patterns[k]

is_application(image_lower) ==
    \E k \in 1..Len(exclude_patterns) : Contains(image_lower, exclude_patterns[k])

has_postgres_port(ports) ==
    IF ports # << >> THEN Contains(ports, PgPortText) ELSE TRUE

IsPostgresDatabaseServer(image, ports) ==
    LET image_lower == Lower(image)
    IN  IF Contains(image_lower, PostgresqlLatest)
        THEN FALSE
        ELSE /\ is_postgres_server(image_lower)
             /\ ~ is_application(image_lower)
             /\ has_postgres_port(ports)


(***************************************************************************)
(* Input domains.                                                          *)
(***************************************************************************)
T_postgres == <<"p","o","s","t","g","r","e","s">>
T_postgres15 == <<"p","o","s","t","g","r","e","s",":","1","5">>
T_postgis == <<"p","o","s","t","g","i","s","/","p","o","s","t","g","i","s">>
T_timescale == <<"t","i","m","e","s","c","a","l","e","/","t","i","m","e","s","c","a","l","e","d","b">>
T_bitnami_pg == <<"b","i","t","n","a","m","i","/","p","o","s","t","g","r","e","s","q","l">>
T_nginx == <<"n","g","i","n","x">>

\* the server images named by the documentation
KnownServerImages == {T_postgres, T_postgres15, T_postgis, T_timescale, T_bitnami_pg}

DenyNames == {exclude_patterns[k] : k \in 1..Len(exclude_patterns)}

AppPrefixes == { << >>, <<"p","o","s","t","g","r","e","s","-">>, <<"b","i","t","n","a","m","i","/">> }
AppSuffixes == { << >>, <<"-","p","o","s","t","g","r","e","s","q","l">>, <<":","1","5">> }

\* image references that contain a deny-listed application name, in both cases
AppImagesLower == { pre \o d \o suf : pre \in AppPrefixes, d \in DenyNames, suf \in AppSuffixes }
AppImages == AppImagesLower \cup { Upper(i) : i \in AppImagesLower }

OtherImages == { T_nginx, PostgresqlLatest, Upper(T_postgres15) }

Images == KnownServerImages \cup AppImages \cup OtherImages

P_none == << >>
P_5432 == <<"0",".","0",".","0",".","0",":","5","4","3","2","-",">","5","4","3","2","/","t","c","p">>
P_80 == <<"8","0","/","t","c","p">>
P_15432 == <<"1","5","4","3","2","/","t","c","p">>

PortTexts == {P_none, P_5432, P_80, P_15432}

\* the containers docker may report as running: ID, Names, Image, Status, Ports
\* of `docker ps --format json`, Env of `docker inspect`
Pool ==
    << [ID |-> "c1", Names |-> "pg15", Image |-> T_postgres15, Status |-> "Up 2 hours",
        Ports |-> P_5432, Env |-> <<"POSTGRES_USER=app">>],
       [ID |-> "c2", Names |-> "bitpg", Image |-> T_bitnami_pg, Status |-> "Up 2 hours",
        Ports |-> P_none, Env |-> << >>],
       [ID |-> "c3", Names |-> "web", Image |-> T_nginx, Status |-> "Up 2 hours",
        Ports |-> P_80, Env |-> << >>],
       [ID |-> "c4", Names |-> "pgalt", Image |-> T_postgres, Status |-> "Up 2 hours",
        Ports |-> P_80, Env |-> << >>],
       [ID |-> "c5", Names |-> "blog",
        Image |-> <<"w","o","r","d","p","r","e","s","s","-","p","o","s","t","g","r","e","s","q","l">>,
        Status |-> "Up 2 hours", Ports |-> P_80, Env |-> << >>] >>

RECURSIVE SeqOfSet(_)
\* the members of a set of pool indexes, in increasing order
SeqOfSet(S) ==
    IF S = {} THEN << >>
    ELSE LET m == CHOOSE x \in S : \A y \in S : x <= y
         IN  <<Pool[m]>> \o SeqOfSet(S \ {m})

\* the sets of running containers the model considers
Listings == { SeqOfSet(S) : S \in { X \in SUBSET (1..Len(Pool)) : Cardinality(X) <= MaxContainers } }


(***************************************************************************)
(* State.                                                                  *)
(***************************************************************************)
VARIABLES
    pc,                   \* the statement of run() / perform_transfer the session is at
    image, ports, verdict,\* arguments and result of _is_postgres_database_server
    ps_stdout,            \* find_postgres_containers: lines of `docker ps --format json`
    found,                \* find_postgres_containers: the list it returned
    postgres_containers,  \* self.postgres_containers
    selected_container,   \* self.selected_container
    query_stdout,         \* list_databases: result.stdout of the catalog query
    databases,            \* self.databases
    selected_database,    \* self.selected_database
    choice,               \* the text last read by input()
    prompts,              \* inputs rejected so far by the current prompt loop
    overwrite,            \* perform_transfer: the text read at the overwrite prompt
    out,                  \* the messages printed so far
    cmds,                 \* the external steps completed so far, each with its outcome
    dump_file,            \* whether the file at dump_path exists
    dest_exists,          \* destination server: a database of the selected name exists
    dest_content,         \* destination server: what that database holds
    pending,              \* perform_transfer: the outcome on its way through finally
    ret,                  \* the value perform_transfer returned
    stages,               \* the stages of run() that succeeded
    exit_status,          \* the process exit status, -1 while running
    connection_params,    \* self.connection_params
    host_details,         \* perform_transfer: the result of get_host_postgres_details
    launched              \* the external command launched last: its argv and its PGPASSWORD

vars == <<pc, image, ports, verdict, ps_stdout, found, postgres_containers,
          selected_container, query_stdout, databases, selected_database,
          choice, prompts, overwrite, out, cmds, dump_file, dest_exists,
          dest_content, pending, ret, stages, exit_status,
          connection_params, host_details, launched>>

classifyVars == <<image, ports, verdict>>

NoContainer ==
    [id |-> "None", name |-> "None", image |-> << >>, status |-> "None",
     ports |-> << >>, env_vars |-> << >>]

\* connection_params = {} and host_details = None
NoParams ==
    [host |-> "", port |-> "", username |-> "", password |-> "", container_id |-> "None"]

\* no external command of the session has been launched yet
NoCommand == [argv |-> << >>, PGPASSWORD |-> ""]

NoText == <<"\n">>      \* no text read: input() never returns a newline

OldContent == {"old"}           \* what the destination database held before the run
DumpContent == {"d1", "d2"}     \* what the dump file holds

RunInit ==
    /\ pc = "check_dependencies"
    /\ ps_stdout = << >>
    /\ found = << >>
    /\ postgres_containers = << >>
    /\ selected_container = NoContainer
    /\ query_stdout = << >>
    /\ databases = << >>
    /\ selected_database = << >>
    /\ choice = NoText
    /\ prompts = 0
    /\ overwrite = NoText
    /\ out = {}
    /\ cmds = << >>
    /\ dump_file = FALSE
    /\ dest_exists \in BOOLEAN
    /\ dest_content = IF dest_exists THEN OldContent ELSE {}
    /\ pending = "none"
    /\ ret = "none"
    /\ stages = {}
    /\ exit_status = -1
    /\ connection_params = NoParams
    /\ host_details = NoParams
    /\ launched = NoCommand

Init ==
    /\ RunInit
    /\ image = << >>
    /\ ports = << >>
    /\ verdict = "none"

\* sys.exit(1)
Exit1 ==
    /\ pc' = "exited"
    /\ exit_status' = 1

(***************************************************************************)
(* check_dependencies, check_docker_running                                *)
(***************************************************************************)
check_dependencies ==
    /\ pc = "check_dependencies"
    /\ \E missing \in {"none", "Docker not available",
                        "PostgreSQL client not installed", "pg_dump not available"} :
          IF missing = "none"
          THEN /\ pc' = "check_docker_running"
               /\ stages' = stages \cup {"check_dependencies"}
               /\ UNCHANGED <<out, exit_status>>
          ELSE /\ out' = out \cup {missing}
               /\ Exit1
               /\ UNCHANGED stages
    /\ UNCHANGED <<classifyVars, connection_params, host_details, launched, ps_stdout, found, postgres_containers,
                   selected_container, query_stdout, databases, selected_database,
                   choice, prompts, overwrite, cmds, dump_file, dest_exists,
                   dest_content, pending, ret>>

check_docker_running ==
    /\ pc = "check_docker_running"
    /\ \E info_ok \in BOOLEAN :
          IF info_ok
          THEN /\ pc' = "find_postgres_containers"
               /\ stages' = stages \cup {"check_docker_running"}
               /\ UNCHANGED <<out, exit_status>>
          ELSE /\ out' = out \cup {"Docker not running or permission denied"}
               /\ Exit1
               /\ UNCHANGED stages
    /\ UNCHANGED <<classifyVars, connection_params, host_details, launched, ps_stdout, found, postgres_containers,
                   selected_container, query_stdout, databases, selected_database,
                   choice, prompts, overwrite, cmds, dump_file, dest_exists,
                   dest_content, pending, ret>>


(***************************************************************************)
(* find_postgres_containers and _find_postgres_containers_fallback         *)
(***************************************************************************)
T_postgresql == <<"p","o","s","t","g","r","e","s","q","l">>

\* stdout of `docker ps --format json`: one line per running container; a
\* docker client without the json format prints lines json.loads rejects
JsonLines(running, json_ok) ==
    [i \in 1..Len(running) |-> [json |-> json_ok, rec |-> running[i]]]

\* stdout of plain `docker ps` below its header: the whitespace-separated
\* columns ID, IMAGE, COMMAND, CREATED, STATUS, PORTS, NAMES of each row
TabularRow(c) ==
    <<c.ID, c.Image, "docker-entrypoint", "2", "hours", "ago", "Up", "2", "hours">>
        \o (IF c.Ports = << >> THEN << >> ELSE <<c.Ports>>)
        \o <<c.Names>>

TabularRows(running) == [i \in 1..Len(running) |-> TabularRow(running[i])]

StructuredQualifies(line) ==
    /\ line.json
    /\ IsPostgresDatabaseServer(line.rec.Image, line.rec.Ports)

StructuredInfo(line) ==
    [id |-> line.rec.ID, name |-> line.rec.Names, image |-> line.rec.Image,
     status |-> line.rec.Status, ports |-> line.rec.Ports, env_vars |-> line.rec.Env]

\* the containers list the loop over the json lines builds
StructuredPass(lines) ==
    LET q == SelectSeq(lines, StructuredQualifies)
    IN  [i \in 1..Len(q) |-> StructuredInfo(q[i])]

\* docker inspect of the row's container: its environment
InspectEnv(id) ==
    LET k == CHOOSE i \in 1..Len(Pool) : Pool[i].ID = id
    IN  Pool[k].Env

TabularQualifies(parts) ==
    /\ Len(parts) >= 7
    /\ IsPostgresDatabaseServer(parts[2], << >>)

TabularSkipped(parts) ==
    /\ Len(parts) >= 7
    /\ ~ IsPostgresDatabaseServer(parts[2], << >>)
    /\ Contains(Lower(parts[2]), T_postgresql)

TabularInfo(parts) ==
    [id |-> parts[1], name |-> parts[Len(parts)], image |-> parts[2],
     status |-> "running", ports |-> << >>, env_vars |-> InspectEnv(parts[1])]

\* _find_postgres_containers_fallback: the list it returns and what it prints
FallbackResult(running, ps2_ok, inspect_ok) ==
    LET rows == TabularRows(running)
        q == SelectSeq(rows, TabularQualifies)
        skipped == SelectSeq(rows, TabularSkipped)
        skipmsg == IF skipped # << >> THEN {"Skipping application with PostgreSQL"} ELSE {}
    IN  IF ~ ps2_ok \/ (q # << >> /\ ~ inspect_ok)
        THEN [found |-> << >>, msgs |-> {"Error in fallback method"}]
        ELSE [found |-> [i \in 1..Len(q) |-> TabularInfo(q[i])], msgs |-> skipmsg]

\* the messages of find_postgres_containers when its containers list is empty
EmptyMessages(lines) ==
    {"No PostgreSQL containers found"} \cup
    (IF lines # << >>
     THEN {"Running containers found, but none are recognized as PostgreSQL servers"}
     ELSE {"No containers are currently running"})

\* find_postgres_containers: the list returned, whether self.postgres_containers
\* is assigned (and to what), and what is printed
FindResult(running, ps_ok, json_ok, inspect_ok, ps2_ok) ==
    LET lines == JsonLines(running, json_ok)
        containers == StructuredPass(lines)
    IN  IF ~ ps_ok \/ (containers # << >> /\ ~ inspect_ok)
        THEN [found |-> << >>, assigned |-> FALSE, containers |-> << >>,
              msgs |-> {"Error searching for containers"}]
        ELSE IF containers = << >> /\ lines # << >>
        THEN [found |-> FallbackResult(running, ps2_ok, inspect_ok).found,
              assigned |-> FALSE, containers |-> << >>,
              msgs |-> FallbackResult(running, ps2_ok, inspect_ok).msgs]
        ELSE [found |-> containers, assigned |-> TRUE, containers |-> containers,
              msgs |-> IF containers = << >> THEN EmptyMessages(lines) ELSE {}]

find_postgres_containers ==
    /\ pc = "find_postgres_containers"
    /\ \E running \in Listings, ps_ok \in BOOLEAN, json_ok \in BOOLEAN,
          inspect_ok \in BOOLEAN, ps2_ok \in BOOLEAN :
          LET r == FindResult(running, ps_ok, json_ok, inspect_ok, ps2_ok)
          IN  /\ ps_stdout' = IF ps_ok THEN JsonLines(running, json_ok) ELSE << >>
              /\ found' = r.found
              /\ postgres_containers' =
                     IF r.assigned THEN r.containers ELSE postgres_containers
              /\ out' = out \cup r.msgs
    /\ pc' = "run_find_returned"
    /\ UNCHANGED <<classifyVars, connection_params, host_details, launched, selected_container, query_stdout, databases,
                   selected_database, choice, prompts, overwrite, cmds, dump_file,
                   dest_exists, dest_content, pending, ret, stages, exit_status>>

\* run(): if not self.find_postgres_containers(): sys.exit(1)
run_find_returned ==
    /\ pc = "run_find_returned"
    /\ IF found = << >>
       THEN /\ Exit1
            /\ UNCHANGED stages
       ELSE /\ pc' = "display_containers"
            /\ stages' = stages \cup {"find_postgres_containers"}
            /\ UNCHANGED exit_status
    /\ ps_stdout' = << >>
    /\ found' = << >>
    /\ UNCHANGED <<classifyVars, connection_params, host_details, launched, postgres_containers, selected_container,
                   query_stdout, databases, selected_database, choice, prompts,
                   overwrite, out, cmds, dump_file, dest_exists, dest_content,
                   pending, ret>>


(***************************************************************************)
(* The numbered menus: display_containers and select_database              *)
(***************************************************************************)
\* texts the operator may type at a menu prompt, each with what it denotes:
\* the quit sentinel, an integer, or something that is neither
MenuInputs ==
    { [text |-> <<"q">>, kind |-> "quit", val |-> 0],
      [text |-> <<"Q">>, kind |-> "quit", val |-> 0],
      [text |-> <<" ","q"," ">>, kind |-> "quit", val |-> 0],
      [text |-> <<"0">>, kind |-> "int", val |-> 0],
      [text |-> <<"-","1">>, kind |-> "int", val |-> -1],
      [text |-> <<"1">>, kind |-> "int", val |-> 1],
      [text |-> <<"2">>, kind |-> "int", val |-> 2],
      [text |-> <<" ","3">>, kind |-> "int", val |-> 3],
      [text |-> <<"4">>, kind |-> "int", val |-> 4],
      [text |-> <<"1","2">>, kind |-> "int", val |-> 12],
      [text |-> <<"x">>, kind |-> "text", val |-> 0],
      [text |-> <<"1","q">>, kind |-> "text", val |-> 0],
      [text |-> <<"1",".","5">>, kind |-> "text", val |-> 0],
      [text |-> << >>, kind |-> "text", val |-> 0] }

\* a prompt loop that compares the text with the sentinel without lower-casing
MenuChoice_case_sensitive(text, n) ==
    LET c == Strip(text)
    IN  IF c = <<"q">> THEN [kind |-> "quit", num |-> 0]
        ELSE IF ~ IntOk(c) THEN [kind |-> "ValueError", num |-> 0]
        ELSE IF 1 <= IntVal(c) /\ IntVal(c) <= n
             THEN [kind |-> "select", num |-> IntVal(c)]
             ELSE [kind |-> "invalid", num |-> 0]

\* one pass of the prompt loop over n options on the text read by input()
MenuChoice(text, n) ==
    LET c == Strip(text)
    IN  IF Lower(c) = <<"q">> THEN [kind |-> "quit", num |-> 0]
        ELSE IF ~ IntOk(c) THEN [kind |-> "ValueError", num |-> 0]
        ELSE IF 1 <= IntVal(c) /\ IntVal(c) <= n
             THEN [kind |-> "select", num |-> IntVal(c)]
             ELSE [kind |-> "invalid", num |-> 0]

RejectMessage(kind) ==
    IF kind = "invalid" THEN "Invalid selection" ELSE "Please enter a number."

display_containers ==
    /\ pc = "display_containers"
    /\ IF postgres_containers = << >>
       THEN /\ Exit1
            /\ UNCHANGED <<selected_container, choice, prompts, out, stages>>
       ELSE \E m \in MenuInputs :
              LET r == MenuChoice(m.text, Len(postgres_containers))
              IN  /\ choice' = m.text
                  /\ CASE r.kind = "quit" ->
                            /\ out' = out \cup {"Cancelled."}
                            /\ Exit1
                            /\ prompts' = 0
                            /\ UNCHANGED <<selected_container, stages>>
                       [] r.kind = "select" ->
                            /\ selected_container' = postgres_containers[r.num]
                            /\ pc' = "get_connection_details"
                            /\ stages' = stages \cup {"display_containers"}
                            /\ prompts' = 0
                            /\ UNCHANGED <<out, exit_status>>
                       [] OTHER ->
                            /\ prompts < MaxPrompts
                            /\ prompts' = prompts + 1
                            /\ out' = out \cup {RejectMessage(r.kind)}
                            /\ UNCHANGED <<pc, selected_container, stages, exit_status>>
    /\ UNCHANGED <<classifyVars, connection_params, host_details, launched, ps_stdout, found, postgres_containers,
                   query_stdout, databases, selected_database, overwrite, cmds,
                   dump_file, dest_exists, dest_content, pending, ret>>

(***************************************************************************)
(* External commands.  An argv element is tagged with what it is built     *)
(* from: Lit for a plain string, DbName for the selected database name and *)
(* Sql for a statement formatted around it.  The passwords the operator    *)
(* may type differ from every other string of the session, so a password   *)
(* in an argv shows that the command line was built from it.               *)
(***************************************************************************)
Lit(s) == [lit |-> s]
DbName(db) == [db |-> db]
Sql(statement, db) == [sql |-> statement, db |-> db]

Passwords == {"s3cret", "hunter2"}

\* a docker exec command line that also hands the password to the client
SourceArgv_password_arg(params, container_id, tool, rest) ==
    <<Lit("docker"), Lit("exec"), Lit("-i"), Lit(container_id), Lit(tool),
      Lit("-h"), Lit(params.host), Lit("-p"), Lit(params.port),
      Lit("-U"), Lit(params.username),
      Lit("--password"), Lit(params.password)>> \o rest

\* ['docker', 'exec', '-i', id, tool, '-h', host, '-p', port, '-U', username, ...]
SourceArgv(params, container_id, tool, rest) ==
    <<Lit("docker"), Lit("exec"), Lit("-i"), Lit(container_id), Lit(tool),
      Lit("-h"), Lit(params.host), Lit("-p"), Lit(params.port),
      Lit("-U"), Lit(params.username)>> \o rest

\* ['psql', '-h', host, '-p', port, '-U', username, ...]
HostArgv(details, rest) ==
    <<Lit("psql"), Lit("-h"), Lit(details.host), Lit("-p"), Lit(details.port),
      Lit("-U"), Lit(details.username)>> \o rest

AdminQuery(statement) ==
    <<Lit("-d"), Lit("postgres"), Lit("-c"), Lit(statement)>>

\* subprocess.run(argv, env=env) with env['PGPASSWORD'] = password
Launch(argv, password) == launched' = [argv |-> argv, PGPASSWORD |-> password]

\* the defaults get_connection_details derives from the container environment
DefaultUser(env_vars) ==
    IF \E i \in 1..Len(env_vars) : env_vars[i] = "POSTGRES_USER=app"
    THEN "app" ELSE "postgres"

DefaultPort(env_vars) ==
    IF \E i \in 1..Len(env_vars) : env_vars[i] = "PGPORT=5433"
    THEN "5433" ELSE "5432"

OrDefault(typed, default) == IF typed = "" THEN default ELSE typed

get_connection_details ==
    /\ pc = "get_connection_details"
    /\ \E host \in {""}, port \in {""}, username \in {""},
          password \in Passwords :
          connection_params' =
              [host |-> OrDefault(host, "localhost"),
               port |-> OrDefault(port, DefaultPort(selected_container.env_vars)),
               username |-> OrDefault(username, DefaultUser(selected_container.env_vars)),
               password |-> password,
               container_id |-> selected_container.id]
    /\ pc' = "test_connection"
    /\ stages' = stages \cup {"get_connection_details"}
    /\ choice' = NoText
    /\ UNCHANGED <<classifyVars, host_details, launched, ps_stdout, found,
                   postgres_containers, selected_container, query_stdout,
                   databases, selected_database, prompts, overwrite, out, cmds,
                   dump_file, dest_exists, dest_content, pending, ret, exit_status>>

ConnectionMessage(rc) ==
    CASE rc = "nz" -> "Connection failed"
      [] rc = "timeout" -> "Connection timeout"
      [] OTHER -> "Connection error"

\* a connection test that lets the run go on after a timeout
test_connection_timeout_ignored ==
    /\ pc = "test_connection"
    /\ Launch(SourceArgv(connection_params, selected_container.id, "psql",
                         AdminQuery("SELECT version();")),
              connection_params.password)
    /\ \E rc \in {"0", "nz", "timeout", "exception"} :
          /\ cmds' = Append(cmds, [c |-> "test_connection", rc |-> rc, rows |-> FALSE])
          /\ IF rc \in {"0", "timeout"}
             THEN /\ pc' = "list_databases"
                  /\ stages' = stages \cup {"test_connection"}
                  /\ UNCHANGED <<out, exit_status>>
             ELSE /\ out' = out \cup {ConnectionMessage(rc)}
                  /\ Exit1
                  /\ UNCHANGED stages
    /\ UNCHANGED <<classifyVars, connection_params, host_details, ps_stdout, found,
                   postgres_containers, selected_container, query_stdout,
                   databases, selected_database, choice, prompts, overwrite,
                   dump_file, dest_exists, dest_content, pending, ret>>

test_connection ==
    /\ pc = "test_connection"
    /\ Launch(SourceArgv(connection_params, selected_container.id, "psql",
                         AdminQuery("SELECT version();")),
              connection_params.password)
    /\ \E rc \in {"0", "nz", "timeout", "exception"} :
          /\ cmds' = Append(cmds, [c |-> "test_connection", rc |-> rc, rows |-> FALSE])
          /\ IF rc = "0"
             THEN /\ pc' = "list_databases"
                  /\ stages' = stages \cup {"test_connection"}
                  /\ UNCHANGED <<out, exit_status>>
             ELSE /\ out' = out \cup {ConnectionMessage(rc)}
                  /\ Exit1
                  /\ UNCHANGED stages
    /\ UNCHANGED <<classifyVars, connection_params, host_details, ps_stdout, found,
                   postgres_containers, selected_container, query_stdout,
                   databases, selected_database, choice, prompts, overwrite,
                   dump_file, dest_exists, dest_content, pending, ret>>

(***************************************************************************)
(* list_databases                                                          *)
(***************************************************************************)
RECURSIVE Split(_)
\* s.split('\n')
Split(s) ==
    IF \A i \in 1..Len(s) : s[i] # "\n"
    THEN <<s>>
    ELSE LET k == CHOOSE i \in 1..Len(s) :
                      /\ s[i] = "\n"
                      /\ \A j \in 1..(i - 1) : s[j] # "\n"
         IN  <<SubSeq(s, 1, k - 1)>> \o Split(SubSeq(s, k + 1, Len(s)))

NonEmptyText(s) == s # << >>

\* [db.strip() for db in stdout.strip().split('\n') if db.strip()]
StrippedLines(stdout) ==
    LET parts == Split(Strip(stdout))
    IN  SelectSeq([i \in 1..Len(parts) |-> Strip(parts[i])], NonEmptyText)

InSeq(x, s) == \E i \in 1..Len(s) : s[i] = x

\* the list list_databases stores in self.databases
ParseDatabases(stdout) ==
    LET dbs == StrippedLines(stdout)
    IN  IF ~ InSeq(T_postgres, dbs) THEN <<T_postgres>> \o dbs ELSE dbs

\* rows psql -t may print for the catalog query
LineTexts ==
    { <<" ","a","p","p">>,
      <<" ","p","o","s","t","g","r","e","s">>,
      <<" ","p","o","s","t","g","r","e","s"," ">>,
      <<" "," ">>,
      << >> }

RECURSIVE JoinLines(_)
JoinLines(ls) ==
    IF ls = << >> THEN << >> ELSE ls[1] \o <<"\n">> \o JoinLines(Tail(ls))

RECURSIVE SeqsUpTo(_, _)
\* the sequences over S of length at most n
SeqsUpTo(S, n) ==
    IF n = 0 THEN { << >> }
    ELSE LET shorter == SeqsUpTo(S, n - 1)
         IN  shorter \cup { Append(q, x) : q \in shorter, x \in S }

QueryOutputs == { JoinLines(ls) : ls \in SeqsUpTo(LineTexts, MaxLines) }

CatalogQuery ==
    <<Lit("-d"), Lit("postgres"), Lit("-t"), Lit("-c"),
      Lit("SELECT datname FROM pg_database WHERE datistemplate = false AND datname != 'postgres';")>>

list_databases ==
    /\ pc = "list_databases"
    /\ Launch(SourceArgv(connection_params, selected_container.id, "psql", CatalogQuery),
              connection_params.password)
    /\ \E outcome \in {"ok", "nonzero", "exception"}, stdout \in QueryOutputs :
          /\ cmds' = Append(cmds, [c |-> "list_databases",
                                   rc |-> CASE outcome = "ok" -> "0"
                                            [] outcome = "nonzero" -> "nz"
                                            [] OTHER -> "exception",
                                   rows |-> FALSE])
          /\ IF outcome = "ok"
             THEN /\ query_stdout' = stdout
                  /\ databases' = ParseDatabases(stdout)
                  /\ IF ParseDatabases(stdout) = << >>
                     THEN /\ out' = out \cup {"No databases found"}
                          /\ Exit1
                          /\ UNCHANGED stages
                     ELSE /\ pc' = "select_database"
                          /\ stages' = stages \cup {"list_databases"}
                          /\ UNCHANGED <<out, exit_status>>
             ELSE /\ out' = out \cup {"Error loading databases"}
                  /\ Exit1
                  /\ UNCHANGED <<query_stdout, databases, stages>>
    /\ UNCHANGED <<classifyVars, connection_params, host_details, ps_stdout, found,
                   postgres_containers, selected_container, selected_database,
                   choice, prompts, overwrite, dump_file, dest_exists,
                   dest_content, pending, ret>>

select_database ==
    /\ pc = "select_database"
    /\ query_stdout' = << >>
    /\ IF databases = << >>
       THEN /\ Exit1
            /\ UNCHANGED <<selected_database, choice, prompts, out, stages>>
       ELSE \E m \in MenuInputs :
              LET r == MenuChoice(m.text, Len(databases))
              IN  /\ choice' = m.text
                  /\ CASE r.kind = "quit" ->
                            /\ out' = out \cup {"Cancelled."}
                            /\ Exit1
                            /\ prompts' = 0
                            /\ UNCHANGED <<selected_database, stages>>
                       [] r.kind = "select" ->
                            /\ selected_database' = databases[r.num]
                            /\ pc' = "show_transfer_overview"
                            /\ stages' = stages \cup {"select_database"}
                            /\ prompts' = 0
                            /\ UNCHANGED <<out, exit_status>>
                       [] OTHER ->
                            /\ prompts < MaxPrompts
                            /\ prompts' = prompts + 1
                            /\ out' = out \cup {RejectMessage(r.kind)}
                            /\ UNCHANGED <<pc, selected_database, stages, exit_status>>
    /\ UNCHANGED <<classifyVars, connection_params, host_details, launched, ps_stdout, found, postgres_containers,
                   selected_container, databases, overwrite, cmds, dump_file,
                   dest_exists, dest_content, pending, ret>>


(***************************************************************************)
(* show_transfer_overview                                                  *)
(***************************************************************************)
T_y == <<"y">>
T_yes == <<"y","e","s">>
T_n == <<"n">>
T_no == <<"n","o">>

\* texts the operator may type at a y/n prompt, each with whether it is an
\* affirmative answer (y or yes, in any case, surrounding blanks ignored)
YesNoInputs ==
    { [text |-> T_y, affirm |-> TRUE],
      [text |-> T_yes, affirm |-> TRUE],
      [text |-> <<"Y">>, affirm |-> TRUE],
      [text |-> <<" ","Y","e","s"," ">>, affirm |-> TRUE],
      [text |-> T_n, affirm |-> FALSE],
      [text |-> <<"N","O">>, affirm |-> FALSE],
      [text |-> <<"y","e","p">>, affirm |-> FALSE],
      [text |-> <<"1">>, affirm |-> FALSE],
      [text |-> << >>, affirm |-> FALSE] }

\* input(...).strip().lower()
Answer(text) == Lower(Strip(text))

show_transfer_overview ==
    /\ pc = "show_transfer_overview"
    /\ \E a \in YesNoInputs :
          /\ choice' = a.text
          /\ CASE Answer(a.text) \in {T_y, T_yes} ->
                    /\ pc' = "get_host_postgres_details"
                    /\ stages' = stages \cup {"show_transfer_overview"}
                    /\ prompts' = 0
                    /\ UNCHANGED <<out, exit_status>>
               [] Answer(a.text) \in {T_n, T_no} ->
                    /\ Exit1
                    /\ prompts' = 0
                    /\ UNCHANGED <<out, stages>>
               [] OTHER ->
                    /\ prompts < MaxPrompts
                    /\ prompts' = prompts + 1
                    /\ out' = out \cup {"Please answer y or n"}
                    /\ UNCHANGED <<pc, stages, exit_status>>
    /\ UNCHANGED <<classifyVars, connection_params, host_details, launched, ps_stdout, found, postgres_containers,
                   selected_container, query_stdout, databases, selected_database,
                   overwrite, cmds, dump_file, dest_exists, dest_content,
                   pending, ret>>

(***************************************************************************)
(* perform_transfer.  Each external step is one action; cmds records the   *)
(* steps that completed, with the exit status (rc) and whether the step    *)
(* printed any row (rows).                                                 *)
(*                                                                         *)
(* The destination server is the environment: DROP DATABASE exits 0 only   *)
(* on an existing database and removes it, CREATE DATABASE exits 0 only    *)
(* when no database of that name exists and creates an empty one, an       *)
(* import that exits 0 has loaded the whole dump, and one that exits       *)
(* non-zero has loaded any part of it.                                     *)
(***************************************************************************)
\* load_config: the [host] section and transfer.dump_options, at their defaults
config_host == [host |-> "localhost", port |-> "5432", username |-> "postgres"]

dump_options == <<Lit("--no-owner"), Lit("--no-privileges")>>

Step(c, rc, rows) == [c |-> c, rc |-> rc, rows |-> rows]

\* return <value> inside the try block: the finally clause runs first
ReturnViaFinally(value) ==
    /\ pending' = value
    /\ pc' = "finally"

get_host_postgres_details ==
    /\ pc = "get_host_postgres_details"
    /\ \E host_password \in Passwords, rc \in {"0", "nz", "exception"} :
          LET details == [host |-> config_host.host, port |-> config_host.port,
                          username |-> config_host.username,
                          password |-> host_password, container_id |-> "None"]
          IN  /\ Launch(HostArgv(details, AdminQuery("SELECT version();")), host_password)
              /\ cmds' = Append(cmds, Step("host_check", rc, FALSE))
              /\ IF rc = "0"
                 THEN /\ host_details' = details
                      /\ pc' = "dump"
                      /\ UNCHANGED <<out, ret>>
                 ELSE /\ out' = out \cup {"Host connection failed"}
                      /\ ret' = "False"
                      /\ pc' = "run_transfer_returned"
                      /\ UNCHANGED host_details
    /\ choice' = NoText
    /\ UNCHANGED <<classifyVars, connection_params, ps_stdout, found,
                   postgres_containers, selected_container, query_stdout,
                   databases, selected_database, prompts, overwrite, dump_file,
                   dest_exists, dest_content, pending, stages, exit_status>>

\* a dump step that does not test the exit status of pg_dump
dump_unchecked ==
    /\ pc = "dump"
    /\ Launch(SourceArgv(connection_params, selected_container.id, "pg_dump",
                         <<Lit("-d"), DbName(selected_database)>> \o dump_options),
              connection_params.password)
    /\ \E rc \in {"0", "nz"} :
          /\ cmds' = Append(cmds, Step("dump", rc, rc = "0"))
          /\ pc' = "write_dump"
          /\ UNCHANGED <<out, pending>>
    /\ UNCHANGED <<classifyVars, connection_params, host_details, ps_stdout, found, postgres_containers,
                   selected_container, query_stdout, databases, selected_database,
                   choice, prompts, overwrite, dump_file, dest_exists,
                   dest_content, ret, stages, exit_status>>

dump ==
    /\ pc = "dump"
    /\ Launch(SourceArgv(connection_params, selected_container.id, "pg_dump",
                         <<Lit("-d"), DbName(selected_database)>> \o dump_options),
              connection_params.password)
    /\ \E rc \in {"0", "nz"} :
          /\ cmds' = Append(cmds, Step("dump", rc, rc = "0"))
          /\ IF rc = "0"
             THEN /\ pc' = "write_dump"
                  /\ UNCHANGED <<out, pending>>
             ELSE /\ out' = out \cup {"Export failed"}
                  /\ ReturnViaFinally("False")
    /\ UNCHANGED <<classifyVars, connection_params, host_details, ps_stdout, found, postgres_containers,
                   selected_container, query_stdout, databases, selected_database,
                   choice, prompts, overwrite, dump_file, dest_exists,
                   dest_content, ret, stages, exit_status>>

write_dump ==
    /\ pc = "write_dump"
    /\ dump_file' = TRUE
    /\ cmds' = Append(cmds, Step("write", "0", FALSE))
    /\ pc' = "exists_check"
    /\ UNCHANGED <<classifyVars, connection_params, host_details, launched, ps_stdout, found, postgres_containers,
                   selected_container, query_stdout, databases, selected_database,
                   choice, prompts, overwrite, out, dest_exists, dest_content,
                   pending, ret, stages, exit_status>>

exists_check ==
    /\ pc = "exists_check"
    /\ Launch(HostArgv(host_details,
                       <<Lit("-d"), Lit("postgres"), Lit("-t"), Lit("-c"),
                         Sql("SELECT 1 FROM pg_database WHERE datname=", selected_database)>>),
              host_details.password)
    /\ \E rc \in {"0", "nz"} :
          LET rows == (rc = "0" /\ dest_exists)
          IN  /\ cmds' = Append(cmds, Step("exists_check", rc, rows))
              /\ pc' = IF rc = "0" /\ rows THEN "overwrite_prompt" ELSE "create"
    /\ UNCHANGED <<classifyVars, connection_params, host_details, ps_stdout, found, postgres_containers,
                   selected_container, query_stdout, databases, selected_database,
                   choice, prompts, overwrite, out, dump_file, dest_exists,
                   dest_content, pending, ret, stages, exit_status>>

\* an overwrite prompt that aborts only on an explicit n or no
overwrite_prompt_abort_on_no ==
    /\ pc = "overwrite_prompt"
    /\ \E a \in YesNoInputs :
          /\ overwrite' = a.text
          /\ IF Answer(a.text) \in {T_n, T_no}
             THEN ReturnViaFinally("False")
             ELSE /\ pc' = "drop"
                  /\ UNCHANGED pending
    /\ UNCHANGED <<classifyVars, connection_params, host_details, launched, ps_stdout, found, postgres_containers,
                   selected_container, query_stdout, databases, selected_database,
                   choice, prompts, out, cmds, dump_file, dest_exists,
                   dest_content, ret, stages, exit_status>>

overwrite_prompt ==
    /\ pc = "overwrite_prompt"
    /\ \E a \in YesNoInputs :
          /\ overwrite' = a.text
          /\ IF Answer(a.text) \notin {T_y, T_yes}
             THEN ReturnViaFinally("False")
             ELSE /\ pc' = "drop"
                  /\ UNCHANGED pending
    /\ UNCHANGED <<classifyVars, connection_params, host_details, launched, ps_stdout, found, postgres_containers,
                   selected_container, query_stdout, databases, selected_database,
                   choice, prompts, out, cmds, dump_file, dest_exists,
                   dest_content, ret, stages, exit_status>>

drop ==
    /\ pc = "drop"
    /\ Launch(HostArgv(host_details,
                       <<Lit("-d"), Lit("postgres"), Lit("-c"),
                         Sql("DROP DATABASE", selected_database)>>),
              host_details.password)
    /\ \E rc \in {"0", "nz"} :
          /\ rc = "0" => dest_exists
          /\ cmds' = Append(cmds, Step("drop", rc, FALSE))
          /\ IF rc # "0"
             THEN /\ out' = out \cup {"Error dropping database"}
                  /\ ReturnViaFinally("False")
                  /\ UNCHANGED <<dest_exists, dest_content>>
             ELSE /\ dest_exists' = FALSE
                  /\ dest_content' = {}
                  /\ pc' = "create"
                  /\ UNCHANGED <<out, pending>>
    /\ UNCHANGED <<classifyVars, connection_params, host_details, ps_stdout, found, postgres_containers,
                   selected_container, query_stdout, databases, selected_database,
                   choice, prompts, overwrite, dump_file, ret, stages, exit_status>>

\* a create step that does not test the exit status of CREATE DATABASE
create_unchecked ==
    /\ pc = "create"
    /\ Launch(HostArgv(host_details,
                       <<Lit("-d"), Lit("postgres"), Lit("-c"),
                         Sql("CREATE DATABASE", selected_database)>>),
              host_details.password)
    /\ \E rc \in {"0", "nz"} :
          /\ rc = "0" => ~ dest_exists
          /\ cmds' = Append(cmds, Step("create", rc, FALSE))
          /\ dest_exists' = IF rc = "0" THEN TRUE ELSE dest_exists
          /\ dest_content' = IF rc = "0" THEN {} ELSE dest_content
          /\ pc' = "import"
          /\ UNCHANGED <<out, pending>>
    /\ UNCHANGED <<classifyVars, connection_params, host_details, ps_stdout, found, postgres_containers,
                   selected_container, query_stdout, databases, selected_database,
                   choice, prompts, overwrite, dump_file, ret, stages, exit_status>>

create ==
    /\ pc = "create"
    /\ Launch(HostArgv(host_details,
                       <<Lit("-d"), Lit("postgres"), Lit("-c"),
                         Sql("CREATE DATABASE", selected_database)>>),
              host_details.password)
    /\ \E rc \in {"0", "nz"} :
          /\ rc = "0" => ~ dest_exists
          /\ cmds' = Append(cmds, Step("create", rc, FALSE))
          /\ IF rc # "0"
             THEN /\ out' = out \cup {"Error creating database"}
                  /\ ReturnViaFinally("False")
                  /\ UNCHANGED <<dest_exists, dest_content>>
             ELSE /\ dest_exists' = TRUE
                  /\ dest_content' = {}
                  /\ pc' = "import"
                  /\ UNCHANGED <<out, pending>>
    /\ UNCHANGED <<classifyVars, connection_params, host_details, ps_stdout, found, postgres_containers,
                   selected_container, query_stdout, databases, selected_database,
                   choice, prompts, overwrite, dump_file, ret, stages, exit_status>>

\* an import step that treats a non-zero exit status as a failure
import_strict ==
    /\ pc = "import"
    /\ Launch(HostArgv(host_details, <<Lit("-d"), DbName(selected_database)>>),
              host_details.password)
    /\ \E rc \in {"0", "nz"}, part \in SUBSET DumpContent :
          /\ rc = "0" => (dest_exists /\ part = DumpContent)
          /\ ~ dest_exists => part = {}
          /\ cmds' = Append(cmds, Step("import", rc, FALSE))
          /\ dest_content' = dest_content \cup part
          /\ IF rc = "0"
             THEN /\ out' = out \cup {"Transfer completed"}
                  /\ ReturnViaFinally("True")
             ELSE /\ out' = out \cup {"Import failed"}
                  /\ ReturnViaFinally("False")
    /\ UNCHANGED <<classifyVars, connection_params, host_details, ps_stdout, found, postgres_containers,
                   selected_container, query_stdout, databases, selected_database,
                   choice, prompts, overwrite, dump_file, dest_exists, ret,
                   stages, exit_status>>

import ==
    /\ pc = "import"
    /\ Launch(HostArgv(host_details, <<Lit("-d"), DbName(selected_database)>>),
              host_details.password)
    /\ \E rc \in {"0", "nz"}, part \in SUBSET DumpContent :
          /\ rc = "0" => (dest_exists /\ part = DumpContent)
          /\ ~ dest_exists => part = {}
          /\ cmds' = Append(cmds, Step("import", rc, FALSE))
          /\ dest_content' = dest_content \cup part
          /\ out' = out \cup {"Transfer completed"}
                        \cup (IF rc # "0" THEN {"Import completed with warnings"} ELSE {})
    /\ ReturnViaFinally("True")
    /\ UNCHANGED <<classifyVars, connection_params, host_details, ps_stdout, found, postgres_containers,
                   selected_container, query_stdout, databases, selected_database,
                   choice, prompts, overwrite, dump_file, dest_exists, ret,
                   stages, exit_status>>


TrySteps == {"dump", "write_dump", "exists_check", "overwrite_prompt", "drop",
             "create", "import"}

\* an exception or a KeyboardInterrupt raised by a step inside the try block,
\* before the step completed; the step may or may not have taken effect.
\* `except Exception` prints and returns False, a KeyboardInterrupt propagates;
\* the finally clause runs in both cases.
try_raise ==
    /\ pc \in TrySteps
    /\ \E kind \in {"Exception", "KeyboardInterrupt"}, effect \in BOOLEAN,
          part \in SUBSET DumpContent :
          /\ (pc # "import" \/ ~ dest_exists) => part = {}
          /\ pc \in {"dump", "exists_check", "overwrite_prompt"} => ~ effect
          /\ pc = "import" => effect = (part # {})
          /\ dump_file' = IF pc = "write_dump" /\ effect THEN TRUE ELSE dump_file
          /\ dest_exists' = CASE pc = "drop" /\ effect -> FALSE
                              [] pc = "create" /\ effect -> TRUE
                              [] OTHER -> dest_exists
          /\ dest_content' = CASE pc = "drop" /\ effect -> {}
                               [] pc = "import" -> dest_content \cup part
                               [] OTHER -> dest_content
          /\ IF kind = "Exception"
             THEN /\ out' = out \cup {"Transfer error"}
                  /\ ReturnViaFinally("False")
             ELSE /\ ReturnViaFinally("interrupt")
                  /\ UNCHANGED out
    /\ UNCHANGED <<classifyVars, connection_params, host_details, launched, ps_stdout, found, postgres_containers,
                   selected_container, query_stdout, databases, selected_database,
                   choice, prompts, overwrite, cmds, ret, stages, exit_status>>

\* a return that leaves the try block without running the finally clause
finally_skipped ==
    /\ pc = "finally"
    /\ IF pending = "interrupt"
       THEN /\ out' = out \cup {"Cancelled"}
            /\ Exit1
            /\ UNCHANGED ret
       ELSE /\ ret' = pending
            /\ pc' = "run_transfer_returned"
            /\ UNCHANGED <<out, exit_status>>
    /\ pending' = "none"
    /\ UNCHANGED <<classifyVars, connection_params, host_details, launched, ps_stdout, found, postgres_containers,
                   selected_container, query_stdout, databases, selected_database,
                   choice, prompts, overwrite, cmds, dump_file, dest_exists,
                   dest_content, stages>>

\* finally: if os.path.exists(dump_path): os.remove(dump_path); then the
\* pending return completes, or the pending interrupt reaches main()
finally ==
    /\ pc = "finally"
    /\ dump_file' = FALSE
    /\ IF pending = "interrupt"
       THEN /\ out' = out \cup {"Cancelled"}
            /\ Exit1
            /\ UNCHANGED ret
       ELSE /\ ret' = pending
            /\ pc' = "run_transfer_returned"
            /\ UNCHANGED <<out, exit_status>>
    /\ pending' = "none"
    /\ UNCHANGED <<classifyVars, connection_params, host_details, launched, ps_stdout, found, postgres_containers,
                   selected_container, query_stdout, databases, selected_database,
                   choice, prompts, overwrite, cmds, dest_exists, dest_content,
                   stages>>

\* run(): if not self.perform_transfer(): sys.exit(1); otherwise run() and
\* main() return and the interpreter exits with status 0
\* a run() that ignores the value perform_transfer returned
run_transfer_returned_ignored ==
    /\ pc = "run_transfer_returned"
    /\ pc' = "exited"
    /\ exit_status' = 0
    /\ stages' = IF ret = "True" THEN stages \cup {"perform_transfer"} ELSE stages
    /\ UNCHANGED <<classifyVars, connection_params, host_details, launched, ps_stdout, found, postgres_containers,
                   selected_container, query_stdout, databases, selected_database,
                   choice, prompts, overwrite, out, cmds, dump_file, dest_exists,
                   dest_content, pending, ret>>

run_transfer_returned ==
    /\ pc = "run_transfer_returned"
    /\ pc' = "exited"
    /\ IF ret = "True"
       THEN /\ exit_status' = 0
            /\ stages' = stages \cup {"perform_transfer"}
       ELSE /\ exit_status' = 1
            /\ UNCHANGED stages
    /\ UNCHANGED <<classifyVars, connection_params, host_details, launched, ps_stdout, found, postgres_containers,
                   selected_container, query_stdout, databases, selected_database,
                   choice, prompts, overwrite, out, cmds, dump_file, dest_exists,
                   dest_content, pending, ret>>

OutsideTry == {"check_dependencies", "check_docker_running",
               "find_postgres_containers", "run_find_returned",
               "display_containers", "get_connection_details", "test_connection",
               "list_databases", "select_database", "show_transfer_overview",
               "get_host_postgres_details"}

\* main(): an exception or KeyboardInterrupt raised outside the try block of
\* perform_transfer and not handled by the stage reaches main(), which prints
\* and calls sys.exit(1)
main_except ==
    /\ pc \in OutsideTry
    /\ \E msg \in {"Cancelled", "Error"} : out' = out \cup {msg}
    /\ Exit1
    /\ choice' = NoText
    /\ UNCHANGED <<classifyVars, connection_params, host_details, launched, ps_stdout, found, postgres_containers,
                   selected_container, query_stdout, databases, selected_database,
                   prompts, overwrite, cmds, dump_file, dest_exists,
                   dest_content, pending, ret, stages>>

Next ==
    \/ check_dependencies
    \/ check_docker_running
    \/ find_postgres_containers
    \/ run_find_returned
    \/ display_containers
    \/ get_connection_details
    \/ test_connection
    \/ list_databases
    \/ select_database
    \/ show_transfer_overview
    \/ get_host_postgres_details
    \/ dump
    \/ write_dump
    \/ exists_check
    \/ overwrite_prompt
    \/ drop
    \/ create
    \/ import
    \/ try_raise
    \/ finally
    \/ run_transfer_returned
    \/ main_except

Spec == Init /\ [][Next]_vars

(***************************************************************************)
(* The classifier on its own: every image reference and port text of the   *)
(* input domains is classified once.                                       *)
(***************************************************************************)
InitClassify ==
    /\ RunInit
    /\ image \in Images
    /\ ports \in PortTexts
    /\ verdict = "none"

classify ==
    /\ verdict = "none"
    /\ verdict' = IF IsPostgresDatabaseServer(image, ports) THEN "True" ELSE "False"
    /\ UNCHANGED <<pc, connection_params, host_details, launched,
                   image, ports, ps_stdout, found, postgres_containers,
                   selected_container, query_stdout, databases, selected_database,
                   choice, prompts, overwrite, out, cmds, dump_file, dest_exists,
                   dest_content, pending, ret, stages, exit_status>>

NextClassify == classify

SpecClassify == InitClassify /\ [][NextClassify]_vars

TypeOK ==
    /\ exit_status \in {-1, 0, 1}
    /\ ret \in {"none", "True", "False"}
    /\ pending \in {"none", "True", "False", "interrupt"}
    /\ prompts \in 0..MaxPrompts
    /\ dump_file \in BOOLEAN
    /\ dest_content \subseteq (OldContent \cup DumpContent)


(***************************************************************************)
(* Properties.                                                             *)
(***************************************************************************)
AllStages == {"check_dependencies", "check_docker_running",
              "find_postgres_containers", "display_containers",
              "get_connection_details", "test_connection", "list_databases",
              "select_database", "show_transfer_overview", "perform_transfer"}

Returned == pc \in {"run_transfer_returned", "exited"}

Logged(c) == \E i \in 1..Len(cmds) : cmds[i].c = c

LoggedRc(c, rc) == \E i \in 1..Len(cmds) : cmds[i].c = c /\ cmds[i].rc = rc

Declined == \E a \in YesNoInputs : overwrite = a.text /\ ~ a.affirm

Accepted == \E a \in YesNoInputs : overwrite = a.text /\ a.affirm

\* C1: once perform_transfer has returned, or the interrupt it propagated has
\* ended the process, the temporary dump file does not exist, whatever the
\* outcome of each step was.
C1_DumpFileAbsentAfterReturn == Returned => dump_file = FALSE

\* the dump was written to the file and perform_transfer is over
C1_Witness == Returned /\ Logged("write") /\ ~ dump_file

\* C2: when the existence check found the database and the operator's answer
\* to the overwrite prompt is not an affirmative one (y or yes), no DROP
\* DATABASE, CREATE DATABASE or import is issued in the run and
\* perform_transfer returns False.
C2_DeclineLeavesDestinationUntouched ==
    Declined =>
        /\ LoggedRc("exists_check", "0")
        /\ ~ Logged("drop") /\ ~ Logged("create") /\ ~ Logged("import")
        /\ dest_exists /\ dest_content = OldContent
        /\ pc \in {"finally", "run_transfer_returned", "exited"}
        /\ pc = "finally" => pending = "False"
        /\ pc # "finally" => ret = "False"

\* the operator declined and perform_transfer returned
C2_Witness == Declined /\ pc = "run_transfer_returned" /\ ret = "False"

\* C3 as stated: after an accepted overwrite, whenever perform_transfer
\* returns True the destination database holds exactly the dump: nothing of
\* the old contents and all of the dump.
C3_Original ==
    (Accepted /\ ret = "True") => (dest_exists /\ dest_content = DumpContent)

\* C3 as amended: after an accepted overwrite, whenever perform_transfer
\* returns True the old database was dropped, a new one created and the import
\* run on it, in this order; the database holds nothing of the old contents
\* and only contents of the dump, and holds all of the dump when the import
\* exited with status 0.
C3_OverwriteReplacesContents ==
    (Accepted /\ ret = "True") =>
        /\ dest_exists
        /\ dest_content \subseteq DumpContent
        /\ LoggedRc("import", "0") => dest_content = DumpContent
        /\ \E i, j, k \in 1..Len(cmds) :
              /\ i < j /\ j < k
              /\ cmds[i].c = "drop" /\ cmds[i].rc = "0"
              /\ cmds[j].c = "create" /\ cmds[j].rc = "0"
              /\ cmds[k].c = "import"

\* the overwrite was accepted, the import exited non-zero and
\* perform_transfer returned True
C3_Witness ==
    Accepted /\ ret = "True" /\ LoggedRc("import", "nz") /\ dest_content # DumpContent

\* C4: the exit status is 0 exactly when every stage of run() succeeded and
\* perform_transfer returned True, and 1 on every other way the process ends;
\* no status is set while the run is in progress.
C4_ExitStatus ==
    /\ pc # "exited" => exit_status = -1
    /\ pc = "exited" =>
          /\ exit_status \in {0, 1}
          /\ exit_status = 0 <=> (stages = AllStages /\ ret = "True")

\* the process ended with status 0
C4_Witness == pc = "exited" /\ exit_status = 0

\* C5: when the import exits with a non-zero status, perform_transfer prints
\* the warning and the success message, returns True, and the process exits
\* with status 0.
C5_ImportFailureIsWarning ==
    LoggedRc("import", "nz") =>
        /\ LoggedRc("create", "0")
        /\ "Import completed with warnings" \in out
        /\ "Transfer completed" \in out
        /\ pc \in {"finally", "run_transfer_returned", "exited"}
        /\ pc = "finally" => pending = "True"
        /\ pc # "finally" => ret = "True"
        /\ pc = "exited" => exit_status = 0

\* the import exited non-zero and the process exited
C5_Witness == LoggedRc("import", "nz") /\ pc = "exited" /\ exit_status = 0

\* C6: at a menu prompt over n >= 1 options, a text that is neither the quit
\* sentinel nor an integer in 1..n (0, a negative number, a number above n,
\* non-numeric text) selects nothing and leaves the session at the same
\* prompt; an integer k in 1..n selects the k-th option and the menu returns
\* True; q in either case ends the menu with False (exit status 1) and
\* leaves the selection as it was.
C6_MenuSelection ==
    [][ \A m \in MenuInputs :
          (pc \in {"display_containers", "select_database"} /\ choice' = m.text) =>
             LET n == IF pc = "display_containers"
                      THEN Len(postgres_containers) ELSE Len(databases)
             IN  CASE m.kind = "quit" ->
                        /\ pc' = "exited" /\ exit_status' = 1
                        /\ UNCHANGED <<selected_container, selected_database>>
                   [] m.kind = "int" /\ 1 <= m.val /\ m.val <= n ->
                        /\ exit_status' = -1
                        /\ IF pc = "display_containers"
                           THEN /\ pc' = "get_connection_details"
                                /\ selected_container' = postgres_containers[m.val]
                                /\ UNCHANGED selected_database
                           ELSE /\ pc' = "show_transfer_overview"
                                /\ selected_database' = databases[m.val]
                                /\ UNCHANGED selected_container
                   [] OTHER ->
                        /\ pc' = pc /\ exit_status' = -1
                        /\ UNCHANGED <<selected_container, selected_database>>
      ]_vars

\* both kinds of rejected input were re-prompted and a database was selected
C6_Witness ==
    /\ "Invalid selection" \in out
    /\ "Please enter a number." \in out
    /\ selected_database # << >>
    /\ pc = "show_transfer_overview"

CountOf(x, s) == Cardinality({i \in 1..Len(s) : s[i] = x})

\* the state right after list_databases returned True
ListedNow == pc = "select_database" /\ choice = NoText

\* C7 as stated: whenever list_databases succeeds, self.databases holds
\* 'postgres' exactly once and no empty or whitespace-only entry, and
\* 'postgres' is first when no line of the query output was 'postgres'.
C7_Claim ==
    ListedNow =>
        /\ CountOf(T_postgres, databases) = 1
        /\ \A i \in 1..Len(databases) : Strip(databases[i]) # << >>
        /\ (\A ls \in SeqsUpTo(LineTexts, MaxLines) :
               (JoinLines(ls) = query_stdout /\ \A i \in 1..Len(ls) : Strip(ls[i]) # T_postgres)
                   => databases[1] = T_postgres)

\* C8: each documented server image is classified as a server when the port
\* text is empty or contains 5432, and every image reference that contains a
\* deny-listed application name is classified as not a server, in either
\* letter case and whatever the port text.
C8_Classification ==
    verdict # "none" =>
        /\ (image \in KnownServerImages /\ (ports = << >> \/ Contains(ports, PgPortText)))
               => verdict = "True"
        /\ image \in AppImages => verdict = "False"

\* an application image whose reference also contains 'postgres' was classified
C8_Witness ==
    /\ verdict = "False"
    /\ image \in AppImages
    /\ Contains(Lower(image), T_postgres)
    /\ Contains(ports, PgPortText)

Before(i, c, rc) == \E j \in 1..(i - 1) : cmds[j].c = c /\ cmds[j].rc = rc

\* C9 as stated: the dump runs only after the destination credential test
\* exited 0; the existence check, DROP and CREATE only after the dump exited 0
\* and was written to the file; CREATE only after the existence check
\* succeeded and, if it found the database, after the drop exited 0; the
\* import only after CREATE exited 0.
C9_Claim ==
    \A i \in 1..Len(cmds) :
        /\ cmds[i].c \in {"dump", "write", "exists_check", "drop", "create", "import"}
              => Before(i, "host_check", "0")
        /\ cmds[i].c \in {"exists_check", "drop", "create"}
              => (Before(i, "dump", "0") /\ Before(i, "write", "0"))
        /\ cmds[i].c = "create"
              => /\ Before(i, "exists_check", "0")
                 /\ (\E j \in 1..(i - 1) : cmds[j].c = "exists_check" /\ cmds[j].rows)
                        => Before(i, "drop", "0")
        /\ cmds[i].c = "import" => Before(i, "create", "0")

FindErrored ==
    \/ "Error searching for containers" \in out
    \/ "Error in fallback method" \in out

\* C10 as stated: when find_postgres_containers returns with no qualifying
\* container (and no listing or inspection command failed), it returns the
\* empty list and has printed a message: that no containers are running when
\* the structured listing was empty, that containers are running but none is
\* recognized when the listing was not empty.
C10_Claim ==
    (pc = "run_find_returned" /\ found = << >> /\ ~ FindErrored) =>
        /\ ps_stdout = << >> => "No containers are currently running" \in out
        /\ ps_stdout # << >> =>
              "Running containers found, but none are recognized as PostgreSQL servers" \in out


CountCmd(c) == Cardinality({i \in 1..Len(cmds) : cmds[i].c = c})

\* C11: the source connection test runs at most once in a run; when it times
\* out, exits non-zero or raises, the process has exited with status 1, the
\* failed test is the last command of the run, and no database was listed or
\* selected.
C11_ConnectionTestIsTerminal ==
    /\ CountCmd("test_connection") <= 1
    /\ \A i \in 1..Len(cmds) :
          (cmds[i].c = "test_connection" /\ cmds[i].rc # "0") =>
              /\ i = Len(cmds)
              /\ pc = "exited" /\ exit_status = 1
              /\ "test_connection" \notin stages
              /\ databases = << >> /\ selected_database = << >>
              /\ dump_file = FALSE
              /\ host_details = NoParams

\* the connection test timed out and the process exited
C11_Witness ==
    /\ LoggedRc("test_connection", "timeout")
    /\ "Connection timeout" \in out
    /\ pc = "exited"

IsSourceCommand(argv) == argv # << >> /\ argv[1] = Lit("docker")

IsHostCommand(argv) == argv # << >> /\ argv[1] = Lit("psql")

\* C12: in every external command the session launches, no element of the
\* argument list is a password; the password is the PGPASSWORD of the child
\* environment: the source password for the docker exec commands, the
\* destination password for the host psql commands.
C12_PasswordOnlyInEnvironment ==
    launched # NoCommand =>
        /\ \A i \in 1..Len(launched.argv), pw \in Passwords : launched.argv[i] # Lit(pw)
        /\ launched.PGPASSWORD \in Passwords
        /\ IsSourceCommand(launched.argv) \/ IsHostCommand(launched.argv)
        /\ IsSourceCommand(launched.argv) => launched.PGPASSWORD = connection_params.password
        /\ (IsHostCommand(launched.argv) /\ host_details # NoParams)
              => launched.PGPASSWORD = host_details.password

\* the import was launched on the host with a destination password that
\* differs from the source password
C12_Witness ==
    /\ Logged("import")
    /\ IsHostCommand(launched.argv)
    /\ launched.PGPASSWORD = host_details.password
    /\ host_details.password # connection_params.password


\* C13 as stated: a container whose structured listing reports a non-empty
\* port text without 5432 is never in the list find_postgres_containers
\* returns, whatever else is listed.
C13_Claim ==
    pc = "run_find_returned" =>
        \A i \in 1..Len(ps_stdout) :
            (/\ ps_stdout[i].json
             /\ ps_stdout[i].rec.Ports # << >>
             /\ ~ Contains(ps_stdout[i].rec.Ports, PgPortText))
                => \A j \in 1..Len(found) : found[j].id # ps_stdout[i].rec.ID

\* C14 as stated: whenever find_postgres_containers returns a non-empty list,
\* from the structured pass or from the fallback, self.postgres_containers is
\* that list.
C14_Claim ==
    (pc = "run_find_returned" /\ found # << >>) => postgres_containers = found

\* the dump exited 0, was written, the existence check exited 0 with a row,
\* in this order, among the first n commands, and the operator accepted
DropPreconditions(n) ==
    /\ Accepted
    /\ \E j1, j2, j3 \in 1..n :
          /\ j1 < j2 /\ j2 < j3
          /\ cmds[j1].c = "dump" /\ cmds[j1].rc = "0"
          /\ cmds[j2].c = "write" /\ cmds[j2].rc = "0"
          /\ cmds[j3].c = "exists_check" /\ cmds[j3].rc = "0" /\ cmds[j3].rows

\* C15: DROP DATABASE is issued at most once in a run, and only after the
\* dump exited 0 and was written to the file, the existence check exited 0
\* with a row and the operator gave an affirmative answer, in this order;
\* after a failed dump nothing is dropped or created on the destination.
C15_DropOnlyAfterConfirmation ==
    /\ CountCmd("drop") <= 1
    /\ \A i \in 1..Len(cmds) : cmds[i].c = "drop" => DropPreconditions(i - 1)
    /\ pc = "drop" => (DropPreconditions(Len(cmds)) /\ ~ Logged("drop"))
    /\ LoggedRc("dump", "nz") =>
          /\ ~ Logged("drop") /\ ~ Logged("create")
          /\ dest_content \subseteq OldContent
          /\ dest_exists <=> dest_content = OldContent

\* the old database was dropped after an accepted overwrite
C15_Witness == LoggedRc("drop", "0") /\ Accepted /\ ~ dest_exists

====
